---- MODULE Spec2Model ----
(***************************************************************************)
(* Model of the Figma backup orchestration (src/src/core/figma-backup.js)  *)
(* with the collaborators it drives: the configuration manager             *)
(* (src/src/core/config-manager.js), the notification service              *)
(* (src/unnamed/part_000) and the logger (src/unnamed/part_001).           *)
(*                                                                         *)
(* One behaviour is one call of FigmaBackupSystem.run().  The external     *)
(* services (Figma, Dropbox, Notion, Obsidian clients, the file system,    *)
(* the desktop notifier) are not part of the repository's sources: every   *)
(* call to them is an input, drawn with \E from a small set of outcomes.   *)
(***************************************************************************)
EXTENDS Integers, Sequences, FiniteSets, TLC

\* ---------------------------------------------------------------- bounds
\* Longest list of backup targets in the configuration file.
MaxTargets == 2

\* Most operations (loadConfig, updateConfig) made on one ConfigManager.
MaxOps == 2

\* ------------------------------------------------------------ vocabulary
\* Target descriptors (opaque URLs).
Targets == {"A", "B"}

\* Sizes of the files array a download can return.
FileCounts == {1, 2}

\* The three optional destinations, in the order run() handles them.
DestinationOrder == <<"dropbox", "notion", "obsidian">>

DestinationNames == {"dropbox", "notion", "obsidian"}

\* An error message: its fixed text and the service names interpolated in it.
Msg(text, names) == [text |-> text, services |-> names]

NoError == Msg("", <<>>)

RECURSIVE SeqSum(_)
SeqSum(s) == IF s = <<>> THEN 0 ELSE Head(s) + SeqSum(Tail(s))

Range(s) == {s[k] : k \in 1..Len(s)}

\* Array.prototype.some / every / filter over a sequence of records with a
\* boolean field.
SomeSuccess(s) == \E k \in 1..Len(s) : s[k].success

IsSuccess(r) == r.success

IsFailure(r) == ~r.success

\* All sequences over S of length lo..hi.
SeqsOf(S, lo, hi) == UNION {[1..n -> S] : n \in lo..hi}

\* The target lists of the configuration file.  Target descriptors are
\* opaque, so up to renaming a non-empty list starts with "A".
TargetLists == {t \in SeqsOf(Targets, 0, MaxTargets) : Len(t) > 0 => t[1] = "A"}

VARIABLES
    pc,             \* position of run()
    disk,           \* the configuration file on disk
    config,         \* this.config
    logger,         \* this.logger: "null", "unset" (winston not assigned), "ready"
    notificationService, \* this.notificationService constructed
    services,       \* names of the constructed this.services
    success,        \* results.success
    targets,        \* results.targets
    downloads,      \* results.downloads
    uploads,        \* results.uploads
    syncs,          \* results.syncs
    errors,         \* results.errors
    summary,        \* results.summary
    end_time,       \* results.end_time has been set
    validations,    \* validateServices: the local list of probe reports
    dl,             \* downloadFigmaFiles: the local list `downloads`
    i,              \* downloadFigmaFiles: loop index (1-based)
    upl,            \* uploadToDropbox: the local list `uploads`
    j,              \* uploadToDropbox: position in figmaDownloads (1-based)
    calls,          \* every call made to an external service, with its outcome
    notifications,  \* kinds of the notifications handed to notify(), in order
    deliveryFailed, \* the delivery of some notification failed inside notify()
    logs,           \* warn/error entries written through the logger
    reports,        \* report artifacts written by saveExecutionReport
    fatal,          \* the error caught by run()'s catch
    thrown,         \* the error run() rejects with
    thrownAt,       \* orchestrator state in which the fatal error arose
    returned,       \* run() returned this.results
    cmFile,         \* ConfigManager: the file at this.configPath
    cmConfig,       \* ConfigManager: this.config
    cmOut,          \* ConfigManager: the outcome of the last operation
    cmOps           \* ConfigManager: number of operations made

vars == <<pc, disk, config, logger, notificationService, services, success,
          targets, downloads, uploads, syncs, errors, summary, end_time,
          validations, dl, i, upl, j, calls, notifications, deliveryFailed,
          logs, reports, fatal, thrown, thrownAt, returned,
          cmFile, cmConfig, cmOut, cmOps>>

results == <<success, targets, downloads, uploads, syncs, errors, summary, end_time>>

locals == <<validations, dl, i, upl, j>>

notifier == <<notifications, deliveryFailed>>

manager == <<cmFile, cmConfig, cmOut, cmOps>>

\* The orchestrator state (spec.md 4.5) a position of run() belongs to.
StateOf(p) ==
    CASE p \in {"initialize", "initializeServices", "notifyBackupStart"} -> "Init"
      [] p = "validateServices" -> "Validating"
      [] p = "downloadFigmaFiles" -> "Downloading"
      [] p \in {"uploadToDropbox", "updateNotionDatabase", "syncObsidianVault"} -> "Syncing"
      [] p \in {"finish", "generateSummary"} -> "Aggregating"
      [] p \in {"saveExecutionReport", "notifyBackupComplete"} -> "Reporting"
      [] p = "Done" -> "Done"
      [] OTHER -> "Failed"

\* ------------------------------------------------------- configuration
\* The notification section of a configuration.
NotificationOptions ==
    {[enabled |-> TRUE,  onStart |-> TRUE,  onComplete |-> TRUE, onError |-> TRUE],
     [enabled |-> TRUE,  onStart |-> FALSE, onComplete |-> FALSE, onError |-> FALSE],
     [enabled |-> FALSE, onStart |-> TRUE,  onComplete |-> TRUE, onError |-> TRUE]}

\* getDefaultConfig: empty token, no target, every destination disabled,
\* every notification on.
getDefaultConfig ==
    [token |-> FALSE, targets |-> <<>>, enabled |-> {},
     notifications |-> [enabled |-> TRUE, onStart |-> TRUE,
                        onComplete |-> TRUE, onError |-> TRUE]]

\* Configurations a user can have written to the file: `token` tells whether
\* figma.token is a non-empty string, `enabled` which destinations have
\* enabled: true.
UserConfigs ==
    [token : BOOLEAN,
     targets : TargetLists,
     enabled : SUBSET DestinationNames,
     notifications : NotificationOptions]

\* States of the configuration file: missing (and the default file can or
\* cannot be written), not parseable, or a JSON file.
DiskStates ==
    {[kind |-> "absent", content |-> getDefaultConfig],
     [kind |-> "unwritable", content |-> getDefaultConfig],
     [kind |-> "malformed", content |-> getDefaultConfig]}
    \cup {[kind |-> "json", content |-> c] : c \in UserConfigs}

\* ---- JSON values of a configuration object
\* A configuration is a function from its top-level keys to values; a value
\* is an object (a function from keys to leaves), null, an array or a
\* number, and a key that is not there reads as undefined.
Obj(f) == [obj |-> f]

Null == [null |-> TRUE]

Arr(a) == [arr |-> a]

Num(n) == [num |-> n]

Undefined == [undefined |-> TRUE]

IsObj(v) == "obj" \in DOMAIN v

IsArr(v) == "arr" \in DOMAIN v

\* typeof v === 'object': true of objects, of arrays and of null.
TypeofObject(v) == "obj" \in DOMAIN v \/ "arr" \in DOMAIN v \/ "null" \in DOMAIN v

NoProps == [k \in {} |-> TRUE]

\* The own properties an object spread {...v} copies: the keys of an
\* object, the indices of an array, nothing of null, undefined or a number.
Props(v) ==
    IF IsObj(v) THEN v.obj
    ELSE IF IsArr(v)
         THEN [k \in {ToString(n - 1) : n \in 1..Len(v.arr)} |->
                  v.arr[CHOOSE n \in 1..Len(v.arr) : ToString(n - 1) = k]]
         ELSE NoProps

\* { ...a, ...b }
Spread(a, b) ==
    [k \in DOMAIN Props(a) \cup DOMAIN Props(b) |->
        IF k \in DOMAIN Props(b) THEN Props(b)[k] ELSE Props(a)[k]]

\* c[k] for a configuration object c.
Lookup(c, k) == IF k \in DOMAIN c THEN c[k] ELSE Undefined

\* v has the property k (v.k is not undefined).
Has(v, k) == IsObj(v) /\ k \in DOMAIN v.obj

\* this.defaultConfig, with the sections and keys validateConfig reads, one
\* more key (figma.email) and one more section (dropbox).
defaultConfig ==
    [figma |-> Obj([token |-> "", email |-> ""]),
     backup |-> Obj([targets |-> <<>>, outputDir |-> "./figma-backups",
                     output_dir |-> "./figma-backups"]),
     advanced |-> Obj([concurrency |-> 3, timeout |-> 30000]),
     dropbox |-> Obj([enabled |-> FALSE])]

\* mergeConfigs(defaultConfig, userConfig): a deep copy of the default in
\* which every key of the user configuration is set: to the default's value
\* spread with the user's when typeof says 'object' and it is not an array,
\* to the user's value otherwise.
mergeConfigs(d, u) ==
    [k \in DOMAIN d \cup DOMAIN u |->
        IF k \notin DOMAIN u THEN d[k]
        ELSE IF TypeofObject(u[k]) /\ ~IsArr(u[k])
             THEN Obj(Spread(Lookup(d, k), u[k]))
             ELSE u[k]]

\* validateConfig: the list of errors.  The token must be truthy, targets a
\* non-empty list, one of outputDir and output_dir truthy; concurrency and
\* timeout are checked only when truthy, so not when they are 0.
validateConfig(c) ==
    (IF ~Has(c.figma, "token") \/ c.figma.obj.token = ""
     THEN <<"token">> ELSE <<>>)
    \o (IF ~Has(c.backup, "targets") \/ Len(c.backup.obj.targets) = 0
        THEN <<"targets">> ELSE <<>>)
    \o (IF /\ ~Has(c.backup, "outputDir") \/ c.backup.obj.outputDir = ""
           /\ ~Has(c.backup, "output_dir") \/ c.backup.obj.output_dir = ""
        THEN <<"outputDir">> ELSE <<>>)
    \o (IF /\ Has(c.advanced, "concurrency")
           /\ c.advanced.obj.concurrency # 0
           /\ \/ c.advanced.obj.concurrency < 1
              \/ c.advanced.obj.concurrency > 10
        THEN <<"concurrency">> ELSE <<>>)
    \o (IF /\ Has(c.advanced, "timeout")
           /\ c.advanced.obj.timeout # 0
           /\ c.advanced.obj.timeout < 5000
        THEN <<"timeout">> ELSE <<>>)

\* The configuration file a user wrote for the run configuration c: the
\* token, the targets and the enabled flag of Dropbox.
FileOf(c) ==
    [figma |-> Obj([token |-> IF c.token THEN "t" ELSE ""]),
     backup |-> Obj([targets |-> c.targets]),
     dropbox |-> Obj([enabled |-> "dropbox" \in c.enabled])]

\* loadConfig: TRUE when it throws ("load config failed: ...").
loadConfigThrows(d) ==
    \/ d.kind \in {"malformed", "unwritable"}
    \/ /\ d.kind = "json"
       /\ validateConfig(mergeConfigs(defaultConfig, FileOf(d.content))) # <<>>

\* loadConfig: the configuration it returns when it does not throw.  With no
\* file it returns the default configuration without validating it.
loadConfig(d) == IF d.kind = "absent" THEN getDefaultConfig ELSE d.content

\* ------------------------------------------------------------- results
EmptySummary ==
    [computed |-> FALSE, total_targets |-> 0, successful_downloads |-> 0,
     failed_downloads |-> 0, total_files |-> 0, services |-> <<>>,
     errors |-> <<>>]

\* The results object as a destination sees it (this.results, by reference).
ResultsSnapshot ==
    [success |-> success, targets |-> targets, downloads |-> downloads,
     uploads |-> uploads, syncs |-> syncs, errors |-> errors]

\* The outcome of a ConfigManager operation: whether it threw and why, the
\* update it was given, the validation errors it found, the configuration
\* it returned (Null when it threw), and this.config and the file as they
\* were before it.
NoOutcome ==
    [op |-> "none", threw |-> FALSE, reason |-> "", update |-> NoProps,
     errors |-> <<>>, value |-> Null, configBefore |-> Null,
     fileBefore |-> [kind |-> "absent"]]

Init ==
    /\ pc = "initialize"
    /\ disk \in DiskStates
    /\ config = getDefaultConfig
    /\ logger = "null"
    /\ notificationService = FALSE
    /\ services = {}
    /\ success = FALSE
    /\ targets = <<>>
    /\ downloads = <<>>
    /\ uploads = <<>>
    /\ syncs = <<>>
    /\ errors = <<>>
    /\ summary = EmptySummary
    /\ end_time = FALSE
    /\ validations = <<>>
    /\ dl = <<>>
    /\ i = 1
    /\ upl = <<>>
    /\ j = 1
    /\ calls = <<>>
    /\ notifications = <<>>
    /\ deliveryFailed = FALSE
    /\ logs = <<>>
    /\ reports = <<>>
    /\ fatal = NoError
    /\ thrown = NoError
    /\ thrownAt = "none"
    /\ returned = FALSE
    /\ cmFile = [kind |-> "absent"]
    /\ cmConfig = Null
    /\ cmOut = NoOutcome
    /\ cmOps = 0

\* A throw inside run()'s try block: control goes to the catch handler.
Throw(err) ==
    /\ pc' = "catch"
    /\ fatal' = err
    /\ thrownAt' = StateOf(pc)

\* ------------------------------------------------------------ initialize
\* initialize(), up to the call of initializeServices: load the
\* configuration, construct the Logger (whose constructor starts the
\* asynchronous setupLogger and returns with winston unassigned) and the
\* NotificationService.
initialize ==
    /\ pc = "initialize"
    /\ IF loadConfigThrows(disk)
       THEN /\ Throw(Msg("load config failed", <<>>))
            /\ UNCHANGED <<config, logger, notificationService>>
       ELSE /\ config' = loadConfig(disk)
            /\ logger' = "unset"
            /\ notificationService' = TRUE
            /\ pc' = "initializeServices"
            /\ UNCHANGED <<fatal, thrownAt>>
    /\ UNCHANGED <<manager, disk, services, results, locals, calls, notifier, logs,
                   reports, thrown, returned>>

\* The continuation of setupLogger after `await fs.ensureDir`: it assigns
\* this.winston.  When it runs relative to run() is decided by the event
\* loop and the file system, so it may take place at any later point.
setupLogger ==
    /\ logger = "unset"
    /\ logger' = "ready"
    /\ UNCHANGED <<pc, manager, disk, config, notificationService, services, results,
                   locals, calls, notifier, logs, reports, fatal, thrown,
                   thrownAt, returned>>

\* Variant of ConstructedBefore: the destinations are constructed whether
\* enabled or not.
ConstructedBeforeAllDestinations(failing) ==
    CASE failing = "figma" -> {}
      [] failing = "dropbox" -> {"figma"}
      [] failing = "notion" -> {"figma", "dropbox"}
      [] failing = "obsidian" -> {"figma", "dropbox", "notion"}
      [] OTHER -> {"figma"} \cup DestinationNames

\* The services initializeServices constructs when the constructor of
\* `failing` throws ("none": no constructor throws): those before it.
ConstructedBefore(failing) ==
    CASE failing = "figma" -> {}
      [] failing = "dropbox" -> {"figma"}
      [] failing = "notion" -> {"figma"} \cup (config.enabled \cap {"dropbox"})
      [] failing = "obsidian" -> {"figma"} \cup (config.enabled \cap {"dropbox", "notion"})
      [] OTHER -> {"figma"} \cup config.enabled

\* initializeServices, and the rest of initialize(): construct the Figma
\* client and every enabled destination, then log through the logger.  A
\* constructor that throws, or a logger whose winston is still unassigned,
\* makes it throw "service initialisation failed".
initializeServices ==
    /\ pc = "initializeServices"
    /\ \E failing \in {"none", "figma"} \cup config.enabled :
          /\ services' = ConstructedBefore(failing)
          /\ IF failing # "none" \/ logger # "ready"
             THEN Throw(Msg("service initialisation failed", <<>>))
             ELSE /\ pc' = "notifyBackupStart"
                  /\ UNCHANGED <<fatal, thrownAt>>
    /\ UNCHANGED <<manager, disk, config, logger, notificationService, results, locals,
                   calls, notifier, logs, reports, thrown, returned>>

\* ---------------------------------------------------------- notifications
\* NotificationService.notify: the notification is handed to the desktop
\* notifier unless notifications are disabled; a delivery failure is caught
\* inside notify and only printed.
notify(kind, delivered) ==
    IF config.notifications.enabled
    THEN /\ notifications' = Append(notifications, kind)
         /\ deliveryFailed' = (deliveryFailed \/ ~delivered)
    ELSE UNCHANGED notifier

\* run(): await notifyBackupStart(targets).
notifyBackupStart ==
    /\ pc = "notifyBackupStart"
    /\ \E delivered \in BOOLEAN :
          IF config.notifications.onStart
          THEN notify("start", delivered)
          ELSE UNCHANGED notifier
    /\ pc' = "validateServices"
    /\ UNCHANGED <<manager, disk, config, logger, notificationService, services, results,
                   locals, calls, logs, reports, fatal, thrown, thrownAt, returned>>

\* ------------------------------------------------------- validateServices
\* The order in which validateServices probes the constructed services.
ProbeOrder == <<"figma", "dropbox", "notion", "obsidian">>

IsConstructed(name) == name \in services

Probed == SelectSeq(ProbeOrder, IsConstructed)

\* What one readiness probe can do: report valid, report invalid, or throw.
ProbeOutcomes == {"valid", "invalid", "throw"}

\* Position in `ps` of the first probe that throws under outcomes `o`
\* (Len(ps) + 1 when none does).
RECURSIVE FirstThrow(_, _, _)
FirstThrow(ps, o, k) ==
    IF k > Len(ps) \/ o[ps[k]] = "throw" THEN k ELSE FirstThrow(ps, o, k + 1)

\* The reports pushed to `validations` before the first throwing probe.
ProbeReports(ps, o) ==
    [k \in 1..(FirstThrow(ps, o, 1) - 1) |->
        [service |-> ps[k], valid |-> (o[ps[k]] = "valid")]]

\* The probe calls made: every probe up to and including the first that throws.
ProbeCalls(ps, o) ==
    LET t == FirstThrow(ps, o, 1)
        n == IF t > Len(ps) THEN Len(ps) ELSE t
    IN  [k \in 1..n |-> [svc |-> ps[k], op |-> "probe", arg |-> <<>>,
                          outcome |-> o[ps[k]]]]

\* Variant of allValid: only the first report (Figma's) is looked at.
allValidFigmaOnly(vs) == Len(vs) > 0 => vs[1].valid

\* Variant of allValid: validations.some(v => v.valid).
allValidSome(vs) == \E k \in 1..Len(vs) : vs[k].valid

\* validations.every(v => v.valid)
allValid(vs) == \A k \in 1..Len(vs) : vs[k].valid

\* validations.filter(v => !v.valid).map(v => v.service)
failedServices(vs) ==
    LET Invalid(v) == ~v.valid
        bad == SelectSeq(vs, Invalid)
    IN  [k \in 1..Len(bad) |-> bad[k].service]

\* The error run() throws when validation.success is false: a fixed text,
\* with no service name in it.
ValidationError == Msg("service validation failed, backup cannot continue", <<>>)

\* validateServices() and the check of its result in run(): probe the Figma
\* client and every constructed destination in order.  A probe that throws
\* ends the probing (the catch returns success: false); otherwise success is
\* allValid, and the names of the invalid services go to the log.  When
\* validation succeeded run() sets results.targets and starts downloading.
validateServices ==
    /\ pc = "validateServices"
    /\ \E o \in [services -> ProbeOutcomes] :
          LET vs == ProbeReports(Probed, o)
              threw == FirstThrow(Probed, o, 1) <= Len(Probed)
              ok == ~threw /\ allValid(vs)
          IN  /\ validations' = vs
              /\ calls' = calls \o ProbeCalls(Probed, o)
              /\ logs' = IF threw
                         THEN Append(logs, [level |-> "error",
                                            msg |-> Msg("error during service validation", <<>>)])
                         ELSE IF ~allValid(vs)
                         THEN Append(logs, [level |-> "warn",
                                            msg |-> Msg("some services failed validation",
                                                        failedServices(vs))])
                         ELSE logs
              /\ IF ok
                 THEN /\ targets' = config.targets
                      /\ pc' = "downloadFigmaFiles"
                      /\ UNCHANGED <<fatal, thrownAt>>
                 ELSE /\ Throw(ValidationError)
                      /\ UNCHANGED targets
    /\ UNCHANGED <<manager, disk, config, logger, notificationService, services, success,
                   downloads, uploads, syncs, errors, summary, end_time,
                   dl, i, upl, j, notifier, reports, thrown, returned>>

\* ----------------------------------------------------- downloadFigmaFiles
\* What services.figma.downloadFromUrl can do: throw, or return a result
\* object.  hasFiles tells whether result.files is an array (of `files`
\* entries), outputPath whether result.outputPath is set.  The results
\* drawn: files and an output path, files without an output path, an output
\* path without a files array.
DownloadOutcomes ==
    {[kind |-> "throw", hasFiles |-> FALSE, files |-> 0, outputPath |-> FALSE]}
    \cup {[kind |-> "result", hasFiles |-> TRUE, files |-> n, outputPath |-> TRUE] :
             n \in FileCounts}
    \cup {[kind |-> "result", hasFiles |-> TRUE, files |-> 1, outputPath |-> FALSE],
          [kind |-> "result", hasFiles |-> FALSE, files |-> 0, outputPath |-> TRUE]}

SuccessRecord(url, o) ==
    [url |-> url, success |-> TRUE, hasFiles |-> o.hasFiles, files |-> o.files,
     output_path |-> o.outputPath, error |-> ""]

FailureRecord(url, text) ==
    [url |-> url, success |-> FALSE, hasFiles |-> FALSE, files |-> 0,
     output_path |-> FALSE, error |-> text]

\* The records one iteration of the loop pushes to `downloads`.  A throwing
\* call pushes a failure.  A returned result pushes a success record, and
\* then spinner.succeed reads result.files.length: with no files array that
\* throws inside the same try block, so the catch pushes a failure record
\* for the same url as well.
DownloadRecords(url, o) ==
    IF o.kind = "throw"
    THEN <<FailureRecord(url, "download failed")>>
    ELSE IF o.hasFiles
         THEN <<SuccessRecord(url, o)>>
         ELSE <<SuccessRecord(url, o), FailureRecord(url, "TypeError: files.length")>>

\* Variant of NextIndex: a failed download leaves the loop.
NextIndexBreakOnFailure(k, o) == IF o.kind = "throw" THEN Len(targets) + 1 ELSE k + 1

\* The loop index after the iteration for target k: the for loop goes on to
\* the next target whether the download returned or threw.
NextIndex(k, o) == k + 1

\* One iteration of the for loop of downloadFigmaFiles.
downloadFromUrl ==
    /\ pc = "downloadFigmaFiles"
    /\ i <= Len(targets)
    /\ \E o \in DownloadOutcomes :
          /\ calls' = Append(calls, [svc |-> "figma", op |-> "download",
                                     arg |-> <<targets[i]>>, outcome |-> o.kind])
          /\ dl' = dl \o DownloadRecords(targets[i], o)
          /\ i' = NextIndex(i, o)
    /\ UNCHANGED <<pc, manager, disk, config, logger, notificationService, services, results,
                   validations, upl, j, notifier, logs, reports, fatal,
                   thrown, thrownAt, returned>>

\* Variant of downloadFigmaFilesReturn: the list is returned without waiting
\* for the downloads still to be made (a loop whose iterations are not
\* awaited).
downloadFigmaFilesReturnEarly ==
    /\ pc = "downloadFigmaFiles"
    /\ downloads' = dl
    /\ pc' = "uploadToDropbox"
    /\ UNCHANGED <<manager, disk, config, logger, notificationService, services, success,
                   targets, uploads, syncs, errors, summary, end_time, locals,
                   calls, notifier, logs, reports, fatal, thrown, thrownAt,
                   returned>>

\* The loop is over: downloadFigmaFiles returns and run() stores the list.
downloadFigmaFilesReturn ==
    /\ pc = "downloadFigmaFiles"
    /\ i > Len(targets)
    /\ downloads' = dl
    /\ pc' = "uploadToDropbox"
    /\ UNCHANGED <<manager, disk, config, logger, notificationService, services, success,
                   targets, uploads, syncs, errors, summary, end_time, locals,
                   calls, notifier, logs, reports, fatal, thrown, thrownAt,
                   returned>>

\* -------------------------------------------------------- uploadToDropbox
\* What a destination's syncBackupResults can do: return success: true,
\* return success: false, or throw.
SyncOutcomes == {"ok", "fail", "throw"}

\* The condition under which uploadToDropbox hands a download to Dropbox.
Uploadable(d) == d.success /\ d.output_path

UploadRecord(d, o) ==
    [source |-> d.url, success |-> (o = "ok"),
     error |-> IF o = "ok" THEN "" ELSE "upload failed"]

\* The single entry uploadToDropbox returns from its catch block.
UploadFailure == [source |-> "", success |-> FALSE, error |-> "upload threw"]

\* run(): Dropbox is not constructed, uploadToDropbox is not called.
uploadToDropboxSkipped ==
    /\ pc = "uploadToDropbox"
    /\ "dropbox" \notin services
    /\ pc' = "updateNotionDatabase"
    /\ UNCHANGED <<manager, disk, config, logger, notificationService, services, results,
                   locals, calls, notifier, logs, reports, fatal, thrown,
                   thrownAt, returned>>

\* One iteration of the for loop of uploadToDropbox: a successful download
\* with an output path is handed to Dropbox alone, as a one-element batch.
\* A call that throws ends the loop: the catch returns one failure entry in
\* place of the list built so far.
syncBackupResultsDropbox ==
    /\ pc = "uploadToDropbox"
    /\ "dropbox" \in services
    /\ j <= Len(downloads)
    /\ IF Uploadable(downloads[j])
       THEN \E o \in SyncOutcomes :
               /\ calls' = Append(calls, [svc |-> "dropbox", op |-> "sync",
                                          arg |-> <<downloads[j]>>, outcome |-> o])
               /\ IF o = "throw"
                  THEN /\ uploads' = <<UploadFailure>>
                       /\ logs' = Append(logs, [level |-> "error",
                                                msg |-> Msg("Dropbox upload failed", <<>>)])
                       /\ pc' = "updateNotionDatabase"
                       /\ UNCHANGED <<upl, j>>
                  ELSE /\ upl' = Append(upl, UploadRecord(downloads[j], o))
                       /\ j' = j + 1
                       /\ UNCHANGED <<uploads, logs, pc>>
       ELSE /\ j' = j + 1
            /\ UNCHANGED <<upl, uploads, logs, pc, calls>>
    /\ UNCHANGED <<manager, disk, config, logger, notificationService, services, success,
                   targets, downloads, syncs, errors, summary, end_time,
                   validations, dl, i, notifier, reports, fatal, thrown,
                   thrownAt, returned>>

\* The loop is over: uploadToDropbox returns the list and run() stores it.
uploadToDropboxReturn ==
    /\ pc = "uploadToDropbox"
    /\ "dropbox" \in services
    /\ j > Len(downloads)
    /\ uploads' = upl
    /\ pc' = "updateNotionDatabase"
    /\ UNCHANGED <<manager, disk, config, logger, notificationService, services, success,
                   targets, downloads, syncs, errors, summary, end_time, locals,
                   calls, notifier, logs, reports, fatal, thrown, thrownAt,
                   returned>>

\* --------------------------------- updateNotionDatabase, syncObsidianVault
\* Variant of SyncRecord: every SyncResult is tagged 'notion'.
SyncRecordSameType(type, o) ==
    [type |-> "notion", success |-> (o = "ok"),
     details |-> (o # "throw"),
     error |-> IF o = "throw" THEN "sync threw" ELSE ""]

\* The SyncResult updateNotionDatabase / syncObsidianVault return: from the
\* try block (success and details) or from the catch block (error).
SyncRecord(type, o) ==
    [type |-> type, success |-> (o = "ok"),
     details |-> (o # "throw"),
     error |-> IF o = "throw" THEN "sync threw" ELSE ""]

\* run(): call `type`'s syncBackupResults once with [this.results] when the
\* service is constructed, and push the SyncResult to results.syncs.
SyncDestination(type, next) ==
    /\ IF type \in services
       THEN \E o \in SyncOutcomes :
               /\ calls' = Append(calls, [svc |-> type, op |-> "sync",
                                          arg |-> <<ResultsSnapshot>>, outcome |-> o])
               /\ syncs' = Append(syncs, SyncRecord(type, o))
               /\ logs' = IF o = "throw"
                          THEN Append(logs, [level |-> "error",
                                             msg |-> Msg("sync failed", <<type>>)])
                          ELSE logs
       ELSE UNCHANGED <<calls, syncs, logs>>
    /\ pc' = next
    /\ UNCHANGED <<manager, disk, config, logger, notificationService, services, success,
                   targets, downloads, uploads, errors, summary, end_time, locals,
                   notifier, reports, fatal, thrown, thrownAt, returned>>

updateNotionDatabase ==
    /\ pc = "updateNotionDatabase"
    /\ SyncDestination("notion", "syncObsidianVault")

syncObsidianVault ==
    /\ pc = "syncObsidianVault"
    /\ SyncDestination("obsidian", "finish")

\* --------------------------------------------------------- generateSummary
FileCount(d) == IF d.hasFiles THEN d.files ELSE 0

\* summary.services: one entry per SyncResult, keyed by its type, and a
\* dropbox entry when results.uploads is not empty.
SummaryServices ==
    LET types == {syncs[k].type : k \in 1..Len(syncs)}
        keys == types \cup (IF Len(uploads) > 0 THEN {"dropbox"} ELSE {})
        Last(t) == syncs[CHOOSE k \in 1..Len(syncs) :
                          /\ syncs[k].type = t
                          /\ \A m \in (k + 1)..Len(syncs) : syncs[m].type # t]
    IN  [t \in keys |->
           IF t = "dropbox" /\ Len(uploads) > 0
           THEN [success |-> SomeSuccess(uploads),
                 uploaded_count |-> Len(SelectSeq(uploads, IsSuccess)),
                 total_count |-> Len(uploads)]
           ELSE [success |-> Last(t).success, details |-> Last(t).details,
                 error |-> Last(t).error]]

\* Variant of generateSummary: the file count is added to the count already
\* in results.summary.
generateSummaryAccumulating ==
    [computed |-> TRUE,
     total_targets |-> Len(targets),
     successful_downloads |-> Len(SelectSeq(downloads, IsSuccess)),
     failed_downloads |-> Len(SelectSeq(downloads, IsFailure)),
     total_files |-> summary.total_files
                     + SeqSum([k \in 1..Len(downloads) |-> FileCount(downloads[k])]),
     services |-> SummaryServices,
     errors |-> errors]

\* generateSummary(), from the current results.
generateSummary ==
    [computed |-> TRUE,
     total_targets |-> Len(targets),
     successful_downloads |-> Len(SelectSeq(downloads, IsSuccess)),
     failed_downloads |-> Len(SelectSeq(downloads, IsFailure)),
     total_files |-> SeqSum([k \in 1..Len(downloads) |-> FileCount(downloads[k])]),
     services |-> SummaryServices,
     errors |-> errors]

\* results.success = results.downloads.some(d => d.success)
ComputedSuccess == SomeSuccess(downloads)

\* run(): set end_time and duration and compute success.
finish ==
    /\ pc = "finish"
    /\ end_time' = TRUE
    /\ success' = ComputedSuccess
    /\ pc' = "generateSummary"
    /\ UNCHANGED <<manager, disk, config, logger, notificationService, services, targets,
                   downloads, uploads, syncs, errors, summary, locals, calls,
                   notifier, logs, reports, fatal, thrown, thrownAt, returned>>

\* run(): this.results.summary = this.generateSummary().
assignSummary ==
    /\ pc = "generateSummary"
    /\ summary' = generateSummary
    /\ pc' = "saveExecutionReport"
    /\ UNCHANGED <<manager, disk, config, logger, notificationService, services, success,
                   targets, downloads, uploads, syncs, errors, end_time, locals,
                   calls, notifier, logs, reports, fatal, thrown, thrownAt,
                   returned>>

\* ----------------------------------------------------- saveExecutionReport
\* The report saveExecutionReport writes: the results with the summary.
Report ==
    [success |-> success, targets |-> targets, downloads |-> downloads,
     uploads |-> uploads, syncs |-> syncs, errors |-> errors, summary |-> summary]

\* Variant of saveExecutionReport: a failed write is logged and swallowed.
saveExecutionReportNonFatal ==
    /\ pc = "saveExecutionReport"
    /\ \E written \in BOOLEAN :
          IF written
          THEN /\ reports' = Append(reports, Report)
               /\ UNCHANGED logs
          ELSE /\ logs' = Append(logs, [level |-> "error",
                                        msg |-> Msg("saving the execution report failed", <<>>)])
               /\ UNCHANGED reports
    /\ pc' = "notifyBackupComplete"
    /\ UNCHANGED <<manager, disk, config, logger, notificationService, services, results,
                   locals, calls, notifier, fatal, thrownAt, thrown, returned>>

\* saveExecutionReport() and displayResults(): the write of the report file
\* succeeds, or it fails and saveExecutionReport logs and rethrows the error
\* into run()'s try block.
saveExecutionReport ==
    /\ pc = "saveExecutionReport"
    /\ \E written \in BOOLEAN :
          IF written
          THEN /\ reports' = Append(reports, Report)
               /\ pc' = "notifyBackupComplete"
               /\ UNCHANGED <<logs, fatal, thrownAt>>
          ELSE /\ logs' = Append(logs, [level |-> "error",
                                        msg |-> Msg("saving the execution report failed", <<>>)])
               /\ Throw(Msg("report write failed", <<>>))
               /\ UNCHANGED reports
    /\ UNCHANGED <<manager, disk, config, logger, notificationService, services, results,
                   locals, calls, notifier, thrown, returned>>

\* notifyBackupComplete(results.downloads), and the return of run().
CompletionKind(rs) ==
    IF Len(SelectSeq(rs, IsSuccess)) = Len(rs) THEN "complete" ELSE "partial"

\* Variant of notifyBackupComplete: a delivery failure is not caught inside
\* notify and reaches run()'s catch.
notifyBackupCompletePropagating ==
    /\ pc = "notifyBackupComplete"
    /\ \E delivered \in BOOLEAN :
          /\ IF config.notifications.onComplete
             THEN notify(CompletionKind(downloads), delivered)
             ELSE UNCHANGED notifier
          /\ IF config.notifications.onComplete /\ config.notifications.enabled
                /\ ~delivered
             THEN /\ Throw(Msg("notification failed", <<>>))
                  /\ UNCHANGED returned
             ELSE /\ pc' = "Done"
                  /\ returned' = TRUE
                  /\ UNCHANGED <<fatal, thrownAt>>
    /\ UNCHANGED <<manager, disk, config, logger, notificationService, services, results,
                   locals, calls, logs, reports, thrown>>

notifyBackupComplete ==
    /\ pc = "notifyBackupComplete"
    /\ \E delivered \in BOOLEAN :
          IF config.notifications.onComplete
          THEN notify(CompletionKind(downloads), delivered)
          ELSE UNCHANGED notifier
    /\ pc' = "Done"
    /\ returned' = TRUE
    /\ UNCHANGED <<manager, disk, config, logger, notificationService, services, results,
                   locals, calls, logs, reports, fatal, thrown, thrownAt>>

\* ------------------------------------------------------------ run()'s catch
TypeError == Msg("TypeError: cannot read properties of undefined", <<>>)

\* The catch block of run(): success is set to false and the message pushed
\* to results.errors (the array summary.errors refers to, once a summary was
\* computed).  Then the error is logged: with no logger, or a logger whose
\* winston is unassigned, that call throws a TypeError out of the catch
\* block, before the error notification.  Otherwise the error notification
\* is sent and the caught error rethrown.
catch ==
    /\ pc = "catch"
    /\ success' = FALSE
    /\ errors' = Append(errors, fatal)
    /\ summary' = IF summary.computed
                  THEN [summary EXCEPT !.errors = Append(errors, fatal)]
                  ELSE summary
    /\ IF logger # "ready"
       THEN /\ thrown' = TypeError
            /\ UNCHANGED <<logs, notifier>>
       ELSE /\ logs' = Append(logs, [level |-> "error",
                                     msg |-> Msg("backup failed", <<>>)])
            /\ \E delivered \in BOOLEAN :
                  IF config.notifications.onError
                  THEN notify("error", delivered)
                  ELSE UNCHANGED notifier
            /\ thrown' = fatal
    /\ pc' = "Failed"
    /\ UNCHANGED <<manager, disk, config, logger, notificationService, services, targets,
                   downloads, uploads, syncs, end_time, locals, calls, reports,
                   fatal, thrownAt, returned>>

\* ------------------------------------------------------- the specification
Next ==
    \/ initialize
    \/ setupLogger
    \/ initializeServices
    \/ notifyBackupStart
    \/ validateServices
    \/ downloadFromUrl
    \/ downloadFigmaFilesReturn
    \/ uploadToDropboxSkipped
    \/ syncBackupResultsDropbox
    \/ uploadToDropboxReturn
    \/ updateNotionDatabase
    \/ syncObsidianVault
    \/ finish
    \/ assignSummary
    \/ saveExecutionReport
    \/ notifyBackupComplete
    \/ catch

Spec == Init /\ [][Next]_vars

\* ------------------------------------------------------- ConfigManager
\* this.config of a ConfigManager: Null, or a configuration object.
Cfg(c) == [cfg |-> c]

\* Values a user gives the top-level keys of a configuration.
ConcurrencyValues == {-1, 0, 1, 10, 11}

SectionValues(k) ==
    CASE k = "figma" ->
            {Obj([token |-> "t"]), Obj([token |-> ""]), Obj([email |-> "e"]), Null}
      [] k = "backup" ->
            {Obj([targets |-> <<"A">>]),
             Obj([targets |-> <<"A">>, outputDir |-> "", output_dir |-> ""]),
             Num(0)}
      [] k = "advanced" ->
            {Obj([concurrency |-> c]) : c \in ConcurrencyValues}
            \cup {Obj([timeout |-> 1000])}
      [] OTHER -> {Null, Arr(<<"x">>), Obj([enabled |-> TRUE])}

\* Configuration objects that set one top-level key.
SingleKey ==
    UNION {{k :> v : v \in SectionValues(k)} :
              k \in {"figma", "backup", "advanced", "dropbox"}}

\* A user configuration validateConfig accepts once merged with the default.
ValidFile ==
    [figma |-> Obj([token |-> "t"]), backup |-> Obj([targets |-> <<"A">>])]

\* The contents of the configuration file, and the updates passed to
\* updateConfig.
UserFiles == {ValidFile, NoProps} \cup SingleKey \cup {u @@ ValidFile : u \in SingleKey}

Updates == {NoProps} \cup SingleKey

ConfigFiles ==
    {[kind |-> "absent"], [kind |-> "malformed"]}
    \cup {[kind |-> "json", content |-> u] : u \in UserFiles}

\* loadConfig() from the file `file` when this.config is `cfg`; `written`
\* tells whether fs.writeJson succeeds in createDefaultConfig.  With no file
\* the default file is created and this.defaultConfig returned, this.config
\* is left as it is and nothing is validated.  A file that parses is merged
\* into the default and assigned to this.config, and only then validated.
LoadOutcome(file, cfg, written) ==
    IF file.kind = "absent"
    THEN IF written
         THEN [threw |-> FALSE, errors |-> <<>>, value |-> Cfg(defaultConfig),
               config |-> cfg, file |-> [kind |-> "json", content |-> defaultConfig]]
         ELSE [threw |-> TRUE, errors |-> <<>>, value |-> Null,
               config |-> cfg, file |-> file]
    ELSE IF file.kind = "malformed"
    THEN [threw |-> TRUE, errors |-> <<>>, value |-> Null,
          config |-> cfg, file |-> file]
    ELSE LET merged == mergeConfigs(defaultConfig, file.content)
             errs == validateConfig(merged)
         IN  [threw |-> errs # <<>>, errors |-> errs,
              value |-> IF errs # <<>> THEN Null ELSE Cfg(merged),
              config |-> Cfg(merged), file |-> file]

\* updateConfig(u): load the configuration when this.config is not set,
\* assign the merge of this.config and u to this.config, validate it, and
\* write it to the file.  With this.config still null after loadConfig
\* (the file was absent) the merge or the validation throws a TypeError.
UpdateOutcome(file, cfg, u, created, written) ==
    LET l == IF cfg = Null
             THEN LoadOutcome(file, cfg, created)
             ELSE [threw |-> FALSE, errors |-> <<>>, value |-> cfg,
                   config |-> cfg, file |-> file]
    IN  IF l.threw
        THEN [threw |-> TRUE, reason |-> "load", errors |-> l.errors,
              value |-> Null, config |-> l.config, file |-> l.file]
        ELSE IF l.config = Null
        THEN [threw |-> TRUE, reason |-> "null", errors |-> <<>>,
              value |-> Null, config |-> Null, file |-> l.file]
        ELSE LET merged == mergeConfigs(l.config.cfg, u)
                 errs == validateConfig(merged)
             IN  IF errs # <<>>
                 THEN [threw |-> TRUE, reason |-> "validation", errors |-> errs,
                       value |-> Null, config |-> Cfg(merged), file |-> l.file]
                 ELSE IF written
                 THEN [threw |-> FALSE, reason |-> "", errors |-> <<>>,
                       value |-> Cfg(merged), config |-> Cfg(merged),
                       file |-> [kind |-> "json", content |-> merged]]
                 ELSE [threw |-> TRUE, reason |-> "write", errors |-> <<>>,
                       value |-> Null, config |-> Cfg(merged), file |-> l.file]

\* get(key) for a path of one or two keys: the value, the default value
\* when the path leads nowhere, or an exception when this.config is null.
get(cfg, path) ==
    IF cfg = Null THEN [throws |-> TRUE]
    ELSE IF path[1] \notin DOMAIN cfg.cfg THEN [found |-> FALSE]
    ELSE IF Len(path) = 1 THEN [found |-> TRUE, value |-> cfg.cfg[path[1]]]
    ELSE IF path[2] \in DOMAIN Props(cfg.cfg[path[1]])
         THEN [found |-> TRUE, leaf |-> Props(cfg.cfg[path[1]])[path[2]]]
         ELSE [found |-> FALSE]

\* The variables of run(), which the ConfigManager operations leave alone.
runVars ==
    <<pc, disk, config, logger, notificationService, services, success,
      targets, downloads, uploads, syncs, errors, summary, end_time,
      validations, dl, i, upl, j, calls, notifications, deliveryFailed,
      logs, reports, fatal, thrown, thrownAt, returned>>

\* A new ConfigManager on some configuration file; no run() is made.
ConfigInit ==
    /\ pc = "initialize"
    /\ disk = [kind |-> "absent", content |-> getDefaultConfig]
    /\ config = getDefaultConfig
    /\ logger = "null"
    /\ notificationService = FALSE
    /\ services = {}
    /\ success = FALSE
    /\ targets = <<>>
    /\ downloads = <<>>
    /\ uploads = <<>>
    /\ syncs = <<>>
    /\ errors = <<>>
    /\ summary = EmptySummary
    /\ end_time = FALSE
    /\ validations = <<>>
    /\ dl = <<>>
    /\ i = 1
    /\ upl = <<>>
    /\ j = 1
    /\ calls = <<>>
    /\ notifications = <<>>
    /\ deliveryFailed = FALSE
    /\ logs = <<>>
    /\ reports = <<>>
    /\ fatal = NoError
    /\ thrown = NoError
    /\ thrownAt = "none"
    /\ returned = FALSE
    /\ cmFile \in ConfigFiles
    /\ cmConfig = Null
    /\ cmOut = NoOutcome
    /\ cmOps = 0

cmLoadConfig ==
    /\ cmOps < MaxOps
    /\ \E written \in BOOLEAN :
          LET o == LoadOutcome(cmFile, cmConfig, written)
          IN  /\ cmConfig' = o.config
              /\ cmFile' = o.file
              /\ cmOut' = [op |-> "loadConfig", threw |-> o.threw,
                           reason |-> "", update |-> NoProps,
                           errors |-> o.errors, value |-> o.value,
                           configBefore |-> cmConfig, fileBefore |-> cmFile]
    /\ cmOps' = cmOps + 1
    /\ UNCHANGED runVars

cmUpdateConfig ==
    /\ cmOps < MaxOps
    /\ \E u \in Updates : \E created \in BOOLEAN : \E written \in BOOLEAN :
          LET o == UpdateOutcome(cmFile, cmConfig, u, created, written)
          IN  /\ cmConfig' = o.config
              /\ cmFile' = o.file
              /\ cmOut' = [op |-> "updateConfig", threw |-> o.threw,
                           reason |-> o.reason, update |-> u,
                           errors |-> o.errors, value |-> o.value,
                           configBefore |-> cmConfig, fileBefore |-> cmFile]
    /\ cmOps' = cmOps + 1
    /\ UNCHANGED runVars

ConfigNext ==
    \/ cmLoadConfig
    \/ cmUpdateConfig

ConfigSpec == ConfigInit /\ [][ConfigNext]_vars

\* ================================================================ claims
RunEnded == pc \in {"Done", "Failed"}

\* The run got past the validation gate.
PassedValidation ==
    \/ pc \in {"downloadFigmaFiles", "uploadToDropbox", "updateNotionDatabase",
               "syncObsidianVault", "finish", "generateSummary",
               "saveExecutionReport",
               "notifyBackupComplete", "Done"}
    \/ pc \in {"catch", "Failed"} /\ thrownAt \notin {"Init", "Validating"}

\* The download stage is over.
AfterDownload == PassedValidation /\ pc # "downloadFigmaFiles"

\* The sync stage is over.
AfterSync ==
    AfterDownload /\ pc \notin {"uploadToDropbox", "updateNotionDatabase",
                                "syncObsidianVault"}

\* The destinations the configuration enables.
Enabled == config.enabled

IsDownloadCall(c) == c.op = "download"

\* The targets the source's download was invoked for, in call order.
DownloadedTargets ==
    LET dc == SelectSeq(calls, IsDownloadCall)
    IN  [k \in 1..Len(dc) |-> dc[k].arg[1]]

\* The sync calls made to destination d, in call order.
SyncCallsOf(d) ==
    LET Mine(c) == c.op = "sync" /\ c.svc = d
    IN  SelectSeq(calls, Mine)

SomeInvalid == \E k \in 1..Len(validations) : ~validations[k].valid

\* C1: at the end of every run that passed validation, downloads holds
\* exactly one DownloadResult per configured target, result k being the one
\* for target k, whatever the source call did for each target.
C1_OneResultPerTarget ==
    (RunEnded /\ PassedValidation) =>
        /\ Len(downloads) = Len(targets)
        /\ \A k \in 1..Len(targets) : downloads[k].url = targets[k]

\* C2: the Failed state is reached only from Init or Validating: once the
\* download stage has started no fatal error arises, the run ends in Done.
C2_FailedOnlyFromInitOrValidating ==
    /\ pc \in {"catch", "Failed"} => thrownAt \in {"Init", "Validating"}
    /\ (RunEnded /\ PassedValidation) => (pc = "Done" /\ returned /\ thrown = NoError)

ReportWriteFailed ==
    \E k \in 1..Len(logs) : logs[k].msg.text = "saving the execution report failed"

\* C3: when persisting the execution report fails, the failure is recorded
\* in errors, success keeps the value computed from the download outcomes,
\* and the run does not become a fatal error.
C3_ReportFailureIsNotFatal ==
    (RunEnded /\ ReportWriteFailed) =>
        /\ \E k \in 1..Len(errors) : errors[k].text = "report write failed"
        /\ success = SomeSuccess(downloads)
        /\ pc = "Done"
        /\ thrown = NoError

\* C4: at the end of every run, success is true if and only if at least one
\* DownloadResult has succeeded, whatever the destinations did.
C4_SuccessIffSomeDownloadSucceeded ==
    RunEnded => (success <=> SomeSuccess(downloads))

\* C5: when a probed capability reports valid=false the run goes to Failed
\* and neither the source's download nor any destination's sync is ever
\* invoked: downloads, uploads and syncs stay empty, no report is persisted.
C5_ValidationGateShortCircuit ==
    SomeInvalid =>
        /\ pc \in {"catch", "Failed"}
        /\ thrownAt = "Validating"
        /\ \A k \in 1..Len(calls) : calls[k].op = "probe"
        /\ downloads = <<>> /\ dl = <<>>
        /\ uploads = <<>> /\ upl = <<>>
        /\ syncs = <<>>
        /\ reports = <<>>
        /\ ~returned

\* C5 witness: a run ended in Failed after Figma probed valid and an enabled
\* destination probed invalid.
C5_Witness ==
    /\ pc = "Failed"
    /\ thrown = ValidationError
    /\ Len(validations) >= 2
    /\ validations[1].valid
    /\ ~validations[2].valid
    /\ Len(config.targets) = MaxTargets

\* C6: when the validation gate fails, the errors list has an entry that
\* names every capability whose probe reported valid=false.
C6_ErrorsNameFailedCapabilities ==
    (pc = "Failed" /\ thrownAt = "Validating") =>
        \A k \in 1..Len(validations) :
            ~validations[k].valid =>
                \E e \in 1..Len(errors) :
                    validations[k].service \in Range(errors[e].services)

\* The sync call of destination d returned success: false or threw.
SyncCallFailed(d) ==
    \E k \in 1..Len(calls) :
        /\ calls[k].op = "sync"
        /\ calls[k].svc = d
        /\ calls[k].outcome \in {"fail", "throw"}

\* A sync call was made to destination d.
Attempted(d) == Len(SyncCallsOf(d)) > 0

\* A result is recorded for destination d: in uploads for Dropbox, in syncs
\* for the others.
HasResult(d) ==
    IF d = "dropbox"
    THEN Len(uploads) > 0
    ELSE \E k \in 1..Len(syncs) : syncs[k].type = d

HasFailedResult(d) ==
    IF d = "dropbox"
    THEN \E k \in 1..Len(uploads) : ~uploads[k].success
    ELSE \E k \in 1..Len(syncs) : syncs[k].type = d /\ ~syncs[k].success

\* C7: a destination whose sync call fails or throws gets its own failed
\* result recorded, every other enabled destination is still attempted and
\* gets its own result recorded, and no DownloadResult is changed by the
\* sync stage.
C7_DestinationIsolation ==
    AfterSync =>
        \A d \in DestinationNames :
            SyncCallFailed(d) =>
                /\ HasFailedResult(d)
                /\ \A e \in Enabled \ {d} : Attempted(e) /\ HasResult(e)
                /\ downloads = dl

\* C8: the source's download is invoked exactly once for every configured
\* target, in the given order: during the download stage the targets
\* downloaded so far are the first i-1 targets, whatever failed among them,
\* and after it they are exactly the configured targets.
C8_EveryTargetDownloadedOnceInOrder ==
    /\ pc = "downloadFigmaFiles" =>
          /\ i <= Len(targets) + 1
          /\ DownloadedTargets = SubSeq(targets, 1, i - 1)
    /\ AfterDownload => DownloadedTargets = config.targets
    /\ ~PassedValidation => DownloadedTargets = <<>>

\* C8 witness: a finished run of MaxTargets targets in which the first
\* download threw and the last was still invoked.
C8_Witness ==
    /\ pc = "Done"
    /\ Len(targets) = MaxTargets
    /\ ~downloads[1].success
    /\ \E k \in 1..Len(calls) :
          /\ calls[k].op = "download"
          /\ calls[k].outcome = "throw"
          /\ \E m \in (k + 1)..Len(calls) :
                calls[m].op = "download" /\ calls[m].arg = <<targets[Len(targets)]>>

\* The destination kinds of the recorded SyncResults, in order.
SyncTypes == [k \in 1..Len(syncs) |-> syncs[k].type]

IsEnabled(d) == d \in Enabled

C10_OneSyncCallWithSuccessfulDownloads ==
    AfterSync =>
        \A d \in Enabled :
            /\ Len(SyncCallsOf(d)) = 1
            /\ SyncCallsOf(d)[1].arg = SelectSeq(downloads, IsSuccess)

\* C11: when no download succeeded, every enabled destination's sync is
\* still invoked, with an empty batch, and every enabled destination has a
\* recorded result.
C11_DestinationsInvokedOnEmptyBatch ==
    (AfterSync /\ ~SomeSuccess(downloads)) =>
        \A d \in Enabled :
            /\ Attempted(d)
            /\ \A k \in 1..Len(SyncCallsOf(d)) : SyncCallsOf(d)[k].arg = <<>>
            /\ HasResult(d)

\* Number of notifications of kind `kind` handed to notify().
CountKind(kind) ==
    LET Is(n) == n = kind
    IN  Len(SelectSeq(notifications, Is))

\* C12: whenever the run goes to Failed from Init or Validating, the error
\* notification is invoked exactly once (the notification service exists,
\* and when its options let error notifications through exactly one is
\* handed to the notifier), the fatal error's message is the last entry of
\* errors, and the error run() rejects with is that fatal error.
C12_FailedNotifiesAndRethrowsFatal ==
    (pc = "Failed" /\ thrownAt \in {"Init", "Validating"}) =>
        /\ notificationService
        /\ (config.notifications.enabled /\ config.notifications.onError) =>
               CountKind("error") = 1
        /\ Len(errors) > 0 /\ errors[Len(errors)] = fatal
        /\ thrown = fatal

\* C13: a run that reaches Done has persisted exactly one report, written
\* after the summary was computed (the report holds the computed summary);
\* a run that ends in Failed has persisted none.
C13_OneReportAtDoneNoneAtFailed ==
    /\ Len(reports) <= 1
    /\ pc = "Done" =>
          /\ Len(reports) = 1
          /\ reports[1].summary.computed
          /\ reports[1].summary = summary
    /\ pc \in {"catch", "Failed"} => reports = <<>>
    /\ reports # <<>> => pc \in {"notifyBackupComplete", "Done"}

\* C13 witness: a finished run of MaxTargets targets, one download failed,
\* whose single report holds the summary counting that failure.
C13_Witness ==
    /\ pc = "Done"
    /\ Len(targets) = MaxTargets
    /\ Len(reports) = 1
    /\ reports[1].summary.failed_downloads = 1
    /\ reports[1].summary.successful_downloads = MaxTargets - 1

\* C14: once the summary is computed no field of it changes for the rest of
\* the run: every later step leaves it as it is.
C14_SummaryNeverMutated ==
    [][summary.computed => summary' = summary]_vars

FilesOfSuccessful ==
    LET ok == SelectSeq(downloads, IsSuccess)
    IN  SeqSum([k \in 1..Len(ok) |-> FileCount(ok[k])])

\* C16: in every run that reaches Done, summary.total_targets is the number
\* of targets, successful_downloads + failed_downloads = total_targets and
\* total_files is the sum of the file counts of the successful downloads;
\* when every download failed, failed_downloads is the number of targets
\* and success is false.
C16_SummaryCountsAreConsistent ==
    pc = "Done" =>
        /\ summary.total_targets = Len(targets)
        /\ summary.successful_downloads + summary.failed_downloads
              = summary.total_targets
        /\ summary.total_files = FilesOfSuccessful
        /\ ~SomeSuccess(downloads) =>
              (summary.failed_downloads = Len(targets) /\ ~success)

\* C17: in every run that reaches Done, summary.services has an entry for
\* every enabled destination and for no disabled one, also when no download
\* succeeded.
C17_SummaryServicesAreTheEnabledDestinations ==
    pc = "Done" => DOMAIN summary.services = Enabled

\* validateServices has run.
ValidationDone ==
    \/ PassedValidation
    \/ pc \in {"catch", "Failed"} /\ thrownAt = "Validating"

IsProbeCall(c) == c.op = "probe"

\* The services probed, in call order, and the services reported on.
ProbedServices ==
    LET pcs == SelectSeq(calls, IsProbeCall)
    IN  [k \in 1..Len(pcs) |-> pcs[k].svc]

ReportedServices == [k \in 1..Len(validations) |-> validations[k].service]

\* C18: validateServices probes the source and every enabled destination
\* exactly once and reports on each of them, whatever a probe does: neither
\* valid=false nor a probe that fails with an error keeps the remaining
\* capabilities from being probed and reported.
C18_EveryCapabilityProbedAndReported ==
    ValidationDone =>
        /\ ProbedServices = SelectSeq(ProbeOrder, LAMBDA n : n = "figma" \/ n \in Enabled)
        /\ ReportedServices = ProbedServices

\* Capability n reported valid=true.
ReportedValid(n) ==
    \E k \in 1..Len(validations) :
        validations[k].service = n /\ validations[k].valid

\* C19: the validation report's success (the run passes the gate) is true
\* exactly when the source and every enabled destination reported
\* valid=true.
C19_ValidationSuccessIsConjunction ==
    ValidationDone =>
        (PassedValidation <=> \A n \in {"figma"} \cup Enabled : ReportedValid(n))

\* C19 witness: both sides true with every destination enabled, the run
\* finished after four valid reports.
C19_Witness ==
    /\ pc = "Done"
    /\ Enabled = DestinationNames
    /\ Len(validations) = 4
    /\ \A k \in 1..4 : validations[k].valid

\* C20: a destination disabled in the configuration is never constructed,
\* never probed and never invoked during the sync stage.
C20_DisabledDestinationsUntouched ==
    \A d \in DestinationNames \ Enabled :
        /\ d \notin services
        /\ \A k \in 1..Len(calls) : calls[k].svc # d

\* C20 witness: a finished run with only the database destination enabled,
\* which was probed and synced while storage and vault were left alone.
C20_Witness ==
    /\ pc = "Done"
    /\ Enabled = {"notion"}
    /\ services = {"figma", "notion"}
    /\ Len(targets) = MaxTargets
    /\ Attempted("notion")
    /\ \E k \in 1..Len(calls) : calls[k].svc = "notion" /\ calls[k].op = "probe"

\* The first n targets each have a record in the list recs.
TargetsRecorded(recs, n) ==
    \A k \in 1..n : \E m \in 1..Len(recs) : recs[m].url = targets[k]

IsSyncCall(c) == c.op = "sync"

\* Position of a call in the order run() makes them: probes, downloads,
\* then the destinations in their order.
CallRank(c) ==
    CASE c.op = "probe" -> 0
      [] c.op = "download" -> 1
      [] c.svc = "dropbox" -> 2
      [] c.svc = "notion" -> 3
      [] OTHER -> 4

\* C21: operations are strictly sequential: when the download of target i
\* is about to start the targets before it have been downloaded and each
\* has a recorded result, no destination sync is made before every target
\* has been downloaded and has a recorded DownloadResult, and the calls of
\* a run follow one another in the order probes, downloads, destinations.
C21_OperationsAreSequential ==
    /\ pc = "downloadFigmaFiles" =>
          /\ Len(DownloadedTargets) = i - 1
          /\ TargetsRecorded(dl, i - 1)
          /\ SelectSeq(calls, IsSyncCall) = <<>>
    /\ SelectSeq(calls, IsSyncCall) # <<>> =>
          /\ AfterDownload
          /\ Len(DownloadedTargets) = Len(targets)
          /\ TargetsRecorded(downloads, Len(targets))
    /\ \A a \in 1..Len(calls) : \A b \in a..Len(calls) :
          CallRank(calls[a]) <= CallRank(calls[b])

\* C21 witness: a finished run of MaxTargets targets in which every
\* destination was synced.
C21_Witness ==
    /\ pc = "Done"
    /\ Len(targets) = MaxTargets
    /\ \A d \in DestinationNames : Attempted(d)

\* C22: the input handed to a destination's sync call holds no other
\* destination's result: no element of the batch carries upload records or
\* SyncResults.
C22_SyncInputHoldsNoDestinationResult ==
    \A k \in 1..Len(calls) :
        calls[k].op = "sync" =>
            \A m \in 1..Len(calls[k].arg) :
                /\ "uploads" \in DOMAIN calls[k].arg[m] => calls[k].arg[m].uploads = <<>>
                /\ "syncs" \in DOMAIN calls[k].arg[m] => calls[k].arg[m].syncs = <<>>

\* C23: a failure while delivering a notification never changes the run
\* outcome: the step in which a delivery fails does not send the run to the
\* catch handler, leaves the download, upload and sync results and the
\* reports as they are, and outside the catch handler leaves success,
\* errors and the thrown error as they are and moves on as it does when the
\* delivery succeeds; inside the catch handler the run still ends in Failed
\* rejecting with the fatal error.
C23_DeliveryFailureChangesNothing ==
    [][(~deliveryFailed /\ deliveryFailed') =>
          /\ pc' # "catch"
          /\ UNCHANGED <<targets, downloads, uploads, syncs, reports, fatal>>
          /\ pc = "catch" => (pc' = "Failed" /\ ~success' /\ thrown' = fatal)
          /\ pc # "catch" =>
                /\ UNCHANGED <<success, errors, thrown>>
                /\ pc' \in {"validateServices", "Done"}]_vars

\* C23 witness: a run that ended in Done, successful and with its report,
\* although the delivery of a notification failed.
C23_Witness ==
    /\ pc = "Done"
    /\ deliveryFailed
    /\ success
    /\ Len(reports) = 1
    /\ Len(notifications) = 2

SomeTargetFailed == \E k \in 1..Len(downloads) : ~downloads[k].success

SomeDestinationFailed == \E d \in DestinationNames : HasFailedResult(d)

\* The completion notification can be delivered under the configuration.
CompletionNotified ==
    config.notifications.enabled /\ config.notifications.onComplete

\* C24: a run that finished with some target or destination failed has
\* persisted a report, has success = TRUE when a download succeeded, and its
\* completion notification is the partial one; the full-success one is sent
\* only when no target and no destination failed.
C24_PartialFailureNotifiedAsPartial ==
    pc = "Done" =>
        /\ Len(reports) = 1
        /\ SomeSuccess(downloads) => success
        /\ (CompletionNotified /\ (SomeTargetFailed \/ SomeDestinationFailed)) =>
              notifications[Len(notifications)] = "partial"
        /\ CountKind("complete") > 0 =>
              (~SomeTargetFailed /\ ~SomeDestinationFailed)

\* C25: no logging method runs while the logger's backend is unset: the
\* log call at the end of initializeServices (every service constructed)
\* never fails, and the log call of run()'s catch handler never throws
\* because the backend is unset.
C25_LoggerUsableAfterConstruction ==
    /\ ~(/\ pc \in {"catch", "Failed"}
          /\ thrownAt = "Init"
          /\ logger # "null"
          /\ services = {"figma"} \cup Enabled)
    /\ ~(logger = "unset" /\ thrown = TypeError)

\* C26: the record of every upload that completed is kept in uploads even
\* when a later upload throws: every Dropbox call that returned has its
\* record in results.uploads once uploadToDropbox is over.
C26_CompletedUploadsAreKept ==
    (AfterDownload /\ pc # "uploadToDropbox") =>
        \A k \in 1..Len(calls) :
            (calls[k].op = "sync" /\ calls[k].svc = "dropbox"
                /\ calls[k].outcome # "throw") =>
                \E m \in 1..Len(uploads) : uploads[m].source = calls[k].arg[1].url

\* C27: every configuration loadConfig returns without throwing passes
\* validateConfig, whether the configuration file was there or not.
C27_LoadedConfigIsValid ==
    (cmOut.op = "loadConfig" /\ ~cmOut.threw) =>
        validateConfig(cmOut.value.cfg) = <<>>

\* The paths get() is asked for: the top-level keys and their properties.
Paths ==
    {<<k>> : k \in DOMAIN defaultConfig}
    \cup {<<k, p>> : k \in DOMAIN defaultConfig,
                     p \in {"token", "email", "targets", "outputDir",
                            "output_dir", "concurrency", "timeout", "enabled"}}

\* C28: when updateConfig rejects an update because the merged
\* configuration fails validation, the file is as it was and every get()
\* returns what it returned before the update.
C28_RejectedUpdateChangesNothing ==
    (/\ cmOut.op = "updateConfig"
     /\ cmOut.reason = "validation"
     /\ cmOut.configBefore # Null) =>
        /\ cmFile = cmOut.fileBefore
        /\ \A path \in Paths : get(cmConfig, path) = get(cmOut.configBefore, path)

\* C29: validateConfig reports the concurrency error for every
\* configuration whose advanced.concurrency is a number outside 1..10, 0
\* and negative numbers included, and for none inside 1..10.
C29_ConcurrencyRangeIsEnforced ==
    (cmOut.op = "loadConfig" /\ cmOut.fileBefore.kind = "json") =>
        LET c == cmConfig.cfg.advanced.obj.concurrency
        IN  ("concurrency" \in Range(cmOut.errors)) <=> (c < 1 \/ c > 10)

\* C30: the configuration mergeConfigs(default, user) returns gives every
\* key of user the user's value (for an object, every key of it), keeps the
\* default's value of every top-level key and of every key of a section
\* that user does not set, and merging user into it again changes nothing.
C30_MergeGivesUserValuesAndKeepsDefaults ==
    (cmOut.op = "loadConfig" /\ cmOut.fileBefore.kind = "json") =>
        LET u == cmOut.fileBefore.content
            m == cmConfig.cfg
        IN  /\ \A k \in DOMAIN u :
                  IF IsObj(u[k])
                  THEN /\ IsObj(m[k])
                       /\ \A p \in DOMAIN u[k].obj : m[k].obj[p] = u[k].obj[p]
                  ELSE m[k] = u[k]
            /\ \A k \in DOMAIN defaultConfig \ DOMAIN u : m[k] = defaultConfig[k]
            /\ \A k \in DOMAIN defaultConfig \cap DOMAIN u :
                  IsObj(u[k]) =>
                      \A p \in DOMAIN defaultConfig[k].obj \ DOMAIN u[k].obj :
                          m[k].obj[p] = defaultConfig[k].obj[p]
            /\ mergeConfigs(m, u) = m

====
